---- MODULE Spec2Model ----
(***************************************************************************)
(* Model of the Advent of Code client of raycast-advent-of-code            *)
(* (src/src/util/api.ts): the module-level throttle state, sendSolution    *)
(* split where it awaits the network, the response                         *)
(* classification, the rate-limit duration extraction and rendering, and   *)
(* the other network operations of the module; the solution form          *)
(* (src/src/submit-solution.tsx) with its toast and its log of answers in  *)
(* LocalStorage; the filter of the stars views (src/src/view-stars.tsx).   *)
(*                                                                         *)
(* Text is modelled as a sequence of lexemes separated by single spaces.   *)
(* A lexeme is either a word (W) or a run of digits followed by a unit     *)
(* letter (Short), which is what /\d+\s*(s|m|h|d)/g matches.               *)
(* Time is Date.now() in milliseconds; the clock only moves forward.       *)
(***************************************************************************)
EXTENDS Integers, Sequences, FiniteSets, TLC

VARIABLES
    canSubmit, delayStart, delayAmount,  \* the module-level throttle state
    now,                                 \* Date.now()
    pc, args,                            \* where each sendSolution call stands, and its arguments
    wire,                                \* submission requests sent and not yet answered
    projectDir, inputFile,               \* the project folder and its input.txt
    last,                                \* the last step taken: operation, request, response, outcome
    before,                              \* history: the throttle state before the last step
    cooled,                              \* history: who set the cooldown, when and for how long
    waited,                              \* history: the remaining time the last wait outcome gave
    form,                                \* the solution form: toast, LocalStorage, logSubmission calls
    view                                 \* the stars list as last rendered

vars == <<canSubmit, delayStart, delayAmount, now, pc, args, wire, projectDir, inputFile,
          last, before, cooled, waited, form, view>>

\* The state of the commands, which the functions of api.ts never touch.
ui == <<form, view>>

files == <<projectDir, inputFile>>

calls == <<pc, args, wire>>

history == <<cooled, waited>>

Throttle == [canSubmit |-> canSubmit, delayStart |-> delayStart, delayAmount |-> delayAmount]

(* ------------------------------ bounds -------------------------------- *)

\* The clock runs from 0 to MaxTicks half-seconds.
MaxTicks == 2

\* Number of sendSolution invocations that may overlap.
NumCalls == 2

Calls == 1..NumCalls

\* Number of answers the form logs in a run.
MaxLogged == 2

\* The days of a year that the stars view is given.
MaxDay == 3

MaxNow == MaxTicks * 500

(* ------------------------------- text --------------------------------- *)

W(w) == [k |-> "word", w |-> w, n |-> 0]

Short(n, u) == [k |-> "short", w |-> u, n |-> n]

RightAnswer == W("That's the right answer")

NotRightAnswer == W("That's not the right answer")

TooRecently == W("You gave an answer too recently")

NoMain == W("Can't find the main element")

Includes(info, marker) == \E i \in 1..Len(info) : info[i] = marker

RECURSIVE SelectIdx(_, _, _)
\* The subsequence of s at the positions of I, in order (helper of StripBrackets).
SelectIdx(s, I, i) ==
    IF i > Len(s) THEN <<>>
    ELSE (IF i \in I THEN <<s[i]>> ELSE <<>>) \o SelectIdx(s, I, i + 1)

\* .replace(/\[.*\]/, ""): the first "[" that has a "]" after it, up to the last "]".
StripBrackets(text) ==
    LET opens  == {i \in 1..Len(text) : text[i] = W("[")
                       /\ \E j \in (i+1)..Len(text) : text[j] = W("]")}
    IN  IF opens = {} THEN text
        ELSE LET i == CHOOSE x \in opens : \A y \in opens : x <= y
                 j == CHOOSE x \in (i+1)..Len(text) :
                          /\ text[x] = W("]")
                          /\ \A y \in (i+1)..Len(text) : text[y] = W("]") => y <= x
             IN  SelectIdx(text, (1..Len(text)) \ (i..j), 1)

\* The main element's text, brackets stripped and trimmed, or the fallback text.
InfoOf(body) == IF body.main THEN StripBrackets(body.text) ELSE <<NoMain>>

(* ------------------------- duration rendering ------------------------- *)

\* Mutant of timeToReadable: every unit is printed, zero or not.
timeToReadable_AllUnits(d, h, m, s) ==
    << <<d, "d">>, <<h, "h">>, <<m, "m">>, <<s, "s">> >>

\* Each piece <<n, u>> stands for the characters `${n}${u} `.
timeToReadable(d, h, m, s) ==
    (IF d # 0 THEN <<<<d, "d">>>> ELSE <<>>) \o
    (IF h # 0 THEN <<<<h, "h">>>> ELSE <<>>) \o
    (IF m # 0 THEN <<<<m, "m">>>> ELSE <<>>) \o
    (IF s # 0 THEN <<<<s, "s">>>> ELSE <<>>)

\* Mutant of msToReadable: a started second counts as a whole one.
msToReadable_RoundUp(ms) ==
    LET up == ms + 999
        d == up \div 86400000
        h == (up - 86400000 * d) \div 3600000
        m == (up - 86400000 * d - 3600000 * h) \div 60000
        s == (up - 86400000 * d - 3600000 * h - 60000 * m) \div 1000
    IN  timeToReadable(d, h, m, s)

msToReadable(ms) ==
    LET msSecond == 1000
        msMinute == 60 * msSecond
        msHour   == 60 * msMinute
        msDay    == 24 * msHour
        d == ms \div msDay
        h == (ms - msDay * d) \div msHour
        m == (ms - msDay * d - msHour * h) \div msMinute
        s == (ms - msDay * d - msHour * h - msMinute * m) \div msSecond
    IN  timeToReadable(d, h, m, s)

(* ------------------------- duration extraction ------------------------ *)

NumberWords == {"one", "two", "three", "four", "five", "six", "seven", "eight", "nine", "ten"}

UnitWords == {"second", "minute", "hour", "day"}

\* Mutant of strToNum: the table counts from zero.
strToNum_ZeroBased(time) ==
    CASE time = "one" -> 0 [] time = "two" -> 1 [] time = "three" -> 2
      [] time = "four" -> 3 [] time = "five" -> 4 [] time = "six" -> 5
      [] time = "seven" -> 6 [] time = "eight" -> 7 [] time = "nine" -> 8
      [] time = "ten" -> 9

\* entries[time] || NaN; the regular expression only lets the ten words through.
strToNum(time) ==
    CASE time = "one" -> 1 [] time = "two" -> 2 [] time = "three" -> 3
      [] time = "four" -> 4 [] time = "five" -> 5 [] time = "six" -> 6
      [] time = "seven" -> 7 [] time = "eight" -> 8 [] time = "nine" -> 9
      [] time = "ten" -> 10

\* unit[0]
FirstLetter(unit) ==
    CASE unit = "second" -> "s" [] unit = "minute" -> "m"
      [] unit = "hour" -> "h" [] unit = "day" -> "d"

\* Positions where /(one|...|ten) (second|minute|hour|day)/ matches.
WaitStrMatches(info) ==
    {i \in 1..(Len(info) - 1) :
        /\ info[i].k = "word" /\ info[i].w \in NumberWords
        /\ info[i+1].k = "word" /\ info[i+1].w \in UnitWords}

\* info.match(/\d+\s*(s|m|h|d)/g): every shorthand lexeme, in order.
WaitNum(info) == SelectSeq(info, LAMBDA x : x.k = "short")

ZeroWait == [s |-> 0, m |-> 0, h |-> 0, d |-> 0]

RECURSIVE AssignAll(_, _, _)
\* for (const x of waitNum) waitTime[x.slice(-1)] = Number(x.slice(0, -1))
AssignAll(waitTime, waitNum, i) ==
    IF i > Len(waitNum) THEN waitTime
    ELSE AssignAll([waitTime EXCEPT ![waitNum[i].w] = waitNum[i].n], waitNum, i + 1)

\* TRUE when waitStr !== null || waitNum !== null
DurationFound(info) == WaitStrMatches(info) # {} \/ WaitNum(info) # <<>>

\* Mutant of WaitTime: the shorthand tokens are written on top of the spelled-out match.
WaitTime_Both(info) ==
    IF WaitStrMatches(info) # {}
    THEN LET i == CHOOSE x \in WaitStrMatches(info) : \A y \in WaitStrMatches(info) : x <= y
         IN  AssignAll([ZeroWait EXCEPT ![FirstLetter(info[i+1].w)] = strToNum(info[i].w)],
                       WaitNum(info), 1)
    ELSE AssignAll(ZeroWait, WaitNum(info), 1)

\* The waitTime table that handleRateLimit fills in.
WaitTime(info) ==
    IF WaitStrMatches(info) # {}
    THEN LET i == CHOOSE x \in WaitStrMatches(info) : \A y \in WaitStrMatches(info) : x <= y
         IN  [ZeroWait EXCEPT ![FirstLetter(info[i+1].w)] = strToNum(info[i].w)]
    ELSE AssignAll(ZeroWait, WaitNum(info), 1)

\* Mutant of DelayAmountOf: seconds, not milliseconds.
DelayAmountOf_Seconds(waitTime) ==
    waitTime.d * 24 * 60 * 60 + waitTime.h * 60 * 60 + waitTime.m * 60 + waitTime.s

DelayAmountOf(waitTime) ==
    (waitTime.d * 24 * 60 * 60 + waitTime.h * 60 * 60 + waitTime.m * 60 + waitTime.s) * 1000

(* ------------------------------ outcomes ------------------------------ *)

Outcome(kind, name, prefix, time, text) ==
    [kind |-> kind, name |-> name, prefix |-> prefix, time |-> time, text |-> text]

Wait(time) == Outcome("return", "wait", "You have to wait: ", time, <<>>)

Success == Outcome("return", "success", "", <<>>, <<>>)

Wrong(info) == Outcome("return", "wrong", "", <<>>, info)

Done == Outcome("return", "done", "", <<>>, <<>>)

AocError(name, prefix, time, text) == Outcome("throw", name, prefix, time, text)

\* new Error(String(res.status))
StatusError(status) == Outcome("throw", "Error", "", <<>>, <<W(status)>>)

\* A rejected fetch() or res.text().
NetworkError == Outcome("throw", "TypeError", "", <<>>, <<W("fetch failed")>>)

\* Thrown by fs.access when the project folder is missing.
AccessError == Outcome("throw", "ENOENT", "", <<>>, <<>>)

ProjectError == Outcome("throw", "ProjectError", "", <<>>, <<W("Project already exists")>>)

\* Mutant of handleErrors: only a message of "400" is taken for a bad session.
handleErrors_Only400(e) ==
    IF e.prefix = "" /\ e.time = <<>> /\ e.text = <<W("400")>>
    THEN AocError("INVALID_SESSION_TOKEN", "", <<>>, <<>>)
    ELSE e

\* What handleErrors throws for the caught error e; every error is an Error instance.
handleErrors(e) ==
    IF e.prefix = "" /\ e.time = <<>> /\ (e.text = <<W("400")>> \/ e.text = <<W("500")>>)
    THEN AocError("INVALID_SESSION_TOKEN", "", <<>>, <<>>)
    ELSE e

(* ------------------------------- inputs ------------------------------- *)

Statuses == {"200", "400", "500", "404"}

\* solution is the answer text, one character after the other.
SubmitArgs ==
    { [year |-> 2023, day |-> 5, part |-> 1, token |-> "tokA", solution |-> <<"4", "2">>],
      [year |-> 2022, day |-> 1, part |-> 2, token |-> "tokB", solution |-> <<"7">>] }

NoArgs == [year |-> 0, day |-> 0, part |-> 0, token |-> "", solution |-> <<>>]

\* The arguments the other operations are called with.
OtherArgs == { [year |-> 2023, day |-> 5, part |-> 0, token |-> "tokA", solution |-> <<>>] }

\* Answers with the characters that mean something in a form-encoded body.
Solutions ==
    { <<"4", "2">>, <<"a", "&", "b">>, <<"1", "+", "1">> }

\* Main texts of submission responses.
Texts ==
    { <<RightAnswer>>,
      <<NotRightAnswer, W("["), W("Return to Day 5"), W("]")>>,
      <<TooRecently, W("one"), W("minute")>>,
      <<TooRecently, Short(1, "s")>>,
      <<TooRecently, Short(0, "s")>>,
      <<TooRecently, W("later")>>,
      <<W("400")>> }

\* text is the text of the main element, or of the whole document when it has none.
NoBody == [main |-> FALSE, text |-> <<>>]

Bodies == [main : {TRUE}, text : Texts] \cup {NoBody}

\* Submission responses: a 200 with any of the bodies, or another status.
Responses ==
    [status : {"200"}, body : Bodies] \cup [status : Statuses \ {"200"}, body : {NoBody}]

\* More main texts: several markers at once, markers inside brackets, texts that read
\* as a status, spelled-out and shorthand durations together.
WideTexts ==
    Texts \cup
    { <<>>,
      <<W("500")>>,
      <<W("Day 5")>>,
      <<NotRightAnswer, RightAnswer>>,
      <<TooRecently, RightAnswer>>,
      <<TooRecently, NotRightAnswer, Short(5, "m")>>,
      <<W("["), RightAnswer, W("]")>>,
      <<W("["), W("1"), W("]"), RightAnswer, W("["), W("Continue to Part Two"), W("]")>>,
      <<RightAnswer, W("["), W("Continue to Part Two"), W("]")>>,
      <<TooRecently, W("two"), W("second"), Short(7, "m")>>,
      <<TooRecently, Short(7, "m"), W("two"), W("second")>>,
      <<TooRecently, W("two"), W("second"), W("one"), W("minute")>>,
      <<TooRecently, W("ten"), W("day")>>,
      <<TooRecently, W("two"), W("minute")>>,
      <<TooRecently, W("eleven"), W("minute")>>,
      <<TooRecently, W("one"), Short(3, "s")>>,
      <<TooRecently, Short(1, "h"), Short(5, "m")>>,
      <<TooRecently, Short(5, "m"), Short(3, "m")>> }

\* Documents without a main element, with and without a marker in them.
WideBodies ==
    [main : {TRUE}, text : WideTexts] \cup [main : {FALSE}, text : {<<>>, <<RightAnswer>>}]

\* Every status with every body: the body of a failed request is never read.
WideResponses == [status : Statuses, body : WideBodies]

\* Puzzle inputs as lines of characters; "\n" is the newline character.
InputTexts == { <<"1", "\n">> }

NoFile == [exists |-> FALSE, text |-> <<>>]

\* What the network gives back to a request that is answered at once.
Replies ==
    {[ok |-> FALSE, status |-> "", text |-> <<>>]} \cup
    [ok : {TRUE}, status : Statuses \ {"200"}, text : {<<>>}] \cup
    [ok : {TRUE}, status : {"200"}, text : InputTexts]

NoRequest ==
    [op |-> "none", year |-> 0, day |-> 0, level |-> 0, cookie |-> "", userAgent |-> FALSE,
     body |-> <<>>]

\* phase is "entry" for the step in which the operation is called, "settle" for the
\* step in which an awaited response arrives.
Event(op, phase, a, req, status, body, out) ==
    [op |-> op, phase |-> phase, args |-> a, req |-> req, status |-> status,
     body |-> body, out |-> out]

NoEvent == Event("none", "", NoArgs, NoRequest, "", NoBody, Done)

TickEvent == Event("tick", "", NoArgs, NoRequest, "", NoBody, Done)

Awaiting(what) == Outcome("await", what, "", <<>>, <<>>)

NotCooled == [by |-> NoArgs, at |-> -1, dur |-> 0]

\* The values the solution form is submitted with; the token comes from the preferences.
FormValues ==
    { [year |-> 2023, day |-> 5, part |-> 1, token |-> "tokA", solution |-> <<"4", "2">>],
      [year |-> 2023, day |-> 5, part |-> 1, token |-> "tokA", solution |-> <<"7">>],
      [year |-> 2023, day |-> 5, part |-> 2, token |-> "tokA", solution |-> <<"7">>] }

\* `${year}/${day}/${part}`
storageKey(values) == <<values.year, values.day, values.part>>

Keys == {storageKey(values) : values \in FormValues}

LogTasks == 1..MaxLogged

NoLog == [pc |-> "idle", values |-> NoArgs, prev |-> <<>>]

Toast(style, title) == [style |-> style, title |-> title]

NoToast == Toast("", "")

Submitting == Toast("Animated", "Submitting answer")

\* toast: the toast on screen; storage: the answers logged under each key of
\* LocalStorage; logs: where each logSubmission call stands; called (history): the
\* values the last step passed to logSubmission; judged (history): all of them, in order.
NoForm ==
    [toast   |-> NoToast,
     storage |-> [k \in Keys |-> <<>>],
     logs    |-> [t \in LogTasks |-> NoLog],
     called  |-> NoArgs,
     judged  |-> <<>>]

NoView == [screen |-> "", year |-> 0, filter |-> "", data |-> <<>>, shown |-> {}]

(* ------------------------------- state -------------------------------- *)

Init ==
    /\ canSubmit = TRUE
    /\ delayStart = 0
    /\ delayAmount = 0
    /\ now = 0
    /\ pc = [c \in Calls |-> "idle"]
    /\ args = [c \in Calls |-> NoArgs]
    /\ wire = {}
    /\ projectDir = FALSE
    /\ inputFile = NoFile
    /\ last = NoEvent
    /\ before = Throttle
    /\ cooled = NotCooled
    /\ waited = -1
    /\ form = NoForm
    /\ view = NoView

\* Mutant of Tick: a background timer that reopens the gate once the cooldown is over.
Tick_Timer ==
    /\ now + 500 <= MaxNow
    /\ now' = now + 500
    /\ canSubmit' = (canSubmit \/ delayAmount - (now' - delayStart) <= 0)
    /\ last' = TickEvent
    /\ before' = Throttle
    /\ UNCHANGED <<delayStart, delayAmount, calls, files, history>>

\* Date.now() moves on while nothing else runs.
Tick ==
    /\ now + 500 <= MaxNow
    /\ now' = now + 500
    /\ last' = TickEvent
    /\ before' = Throttle
    /\ UNCHANGED <<canSubmit, delayStart, delayAmount, calls, files, history>>

(* ----------------------------- sendSolution --------------------------- *)

\* Mutant of remainingMs: the start of the cooldown is left out.
remainingMs_NoStart == delayAmount - now

remainingMs == delayAmount - (now - delayStart)

\* Mutant of MustWait: a call made exactly at the deadline still waits.
MustWait_Inclusive(a) == ~canSubmit /\ delayAmount - (now - delayStart) >= 0

\* Mutant of MustWait: the duration is read as seconds, the elapsed time as milliseconds.
MustWait_Seconds(a) == ~canSubmit /\ (delayAmount \div 1000) - (now - delayStart) > 0

\* Mutant of MustWait: the cooldown only holds for the arguments that ran into it.
MustWait_PerKey(a) == ~canSubmit /\ delayAmount - (now - delayStart) > 0 /\ a = cooled.by

\* The early return of sendSolution: a cooldown is set and has not run out.
MustWait(a) == ~canSubmit /\ remainingMs > 0

\* Mutant of WaitMessage: the full duration instead of what is left of it.
WaitMessage_Full == msToReadable(delayAmount)

\* The message of the wait outcome.
WaitMessage == msToReadable(remainingMs)

\* `${part}`
PartDigit(part) == CASE part = 1 -> "1" [] part = 2 -> "2" [] OTHER -> "0"

\* body: `level=${part}&answer=${solution}`, character by character.
SubmitBody(part, solution) ==
    <<"l", "e", "v", "e", "l", "=", PartDigit(part), "&", "a", "n", "s", "w", "e", "r", "=">>
    \o solution

\* The POST to /{year}/day/{day}/answer.
SubmitRequest(a) ==
    [op |-> "answer", year |-> a.year, day |-> a.day, level |-> a.part,
     cookie |-> a.token, userAgent |-> TRUE, body |-> SubmitBody(a.part, a.solution)]

\* sendSolution from its entry to its first await: the gate, then fetch() is issued.
SendSolution(c, a) ==
    /\ pc[c] = "idle"
    /\ IF MustWait(a)
       THEN /\ last' = Event("sendSolution", "entry", a, NoRequest, "", NoBody, Wait(WaitMessage))
            /\ waited' = remainingMs
            /\ UNCHANGED <<canSubmit, calls>>
       ELSE /\ canSubmit' = TRUE
            /\ pc' = [pc EXCEPT ![c] = "fetch"]
            /\ args' = [args EXCEPT ![c] = a]
            /\ wire' = wire \cup {[call |-> c, req |-> SubmitRequest(a)]}
            /\ last' = Event("sendSolution", "entry", a, SubmitRequest(a), "", NoBody, Awaiting("fetch"))
            /\ waited' = -1
    /\ before' = Throttle
    /\ UNCHANGED <<delayStart, delayAmount, now, cooled, files>>

\* The wire once the request of call c is answered.
Answered(c) == {r \in wire : r.call # c}

\* The branch of the classification that a text takes.
Classify(info) ==
    IF Includes(info, RightAnswer) THEN "success"
    ELSE IF Includes(info, NotRightAnswer) THEN "wrong"
    ELSE IF Includes(info, TooRecently) THEN "rateLimit"
    ELSE "solveError"

\* Mutant of InstallsCooldown: the marker alone closes the gate.
InstallsCooldown_MarkerOnly(status, info) == status = "200" /\ Classify(info) = "rateLimit"

\* Mutant of InstallsCooldown: the body is read whatever the status.
InstallsCooldown_AnyStatus(status, info) ==
    Classify(info) = "rateLimit" /\ DurationFound(info)

\* handleRateLimit sets the cooldown when it is reached and finds a duration.
InstallsCooldown(status, info) ==
    status = "200" /\ Classify(info) = "rateLimit" /\ DurationFound(info)

\* Mutant of handleRateLimit: RATE_LIMIT even when no duration was found.
handleRateLimit_NoFallback(info) ==
    LET waitTime == WaitTime(info)
    IN  AocError("RATE_LIMIT", "Next request possible in: ",
                 timeToReadable(waitTime.d, waitTime.h, waitTime.m, waitTime.s), <<>>)

\* What handleRateLimit throws.
handleRateLimit(info) ==
    IF DurationFound(info)
    THEN LET waitTime == WaitTime(info)
         IN  AocError("RATE_LIMIT", "Next request possible in: ",
                      timeToReadable(waitTime.d, waitTime.h, waitTime.m, waitTime.s), <<>>)
    ELSE AocError("SOLVE_ERROR", "", <<>>, info)

\* Mutant of ClassifyOutcome: a too-recently response is read differently while a
\* cooldown is already set.
ClassifyOutcome_Stateful(status, info) ==
    IF status # "200" THEN handleErrors(StatusError(status))
    ELSE CASE Classify(info) = "success" -> Success
           [] Classify(info) = "wrong" -> Wrong(info)
           [] Classify(info) = "rateLimit" ->
                IF canSubmit THEN handleErrors(handleRateLimit(info))
                ELSE handleErrors(AocError("SOLVE_ERROR", "", <<>>, info))
           [] OTHER -> handleErrors(AocError("SOLVE_ERROR", "", <<>>, info))

\* The result of sendSolution for a response with this status and main text.
ClassifyOutcome(status, info) ==
    IF status # "200" THEN handleErrors(StatusError(status))
    ELSE CASE Classify(info) = "success" -> Success
           [] Classify(info) = "wrong" -> Wrong(info)
           [] Classify(info) = "rateLimit" -> handleErrors(handleRateLimit(info))
           [] OTHER -> handleErrors(AocError("SOLVE_ERROR", "", <<>>, info))

\* fetch() and res.text() resolve: the rest of sendSolution runs. Nothing shared is
\* read or written between the two awaits, so they are taken as one step.
ResponseArrives(c, status, body) ==
    /\ pc[c] = "fetch"
    /\ LET info == InfoOf(body)
       IN  /\ IF InstallsCooldown(status, info)
              THEN /\ canSubmit' = FALSE
                   /\ delayStart' = now
                   /\ delayAmount' = DelayAmountOf(WaitTime(info))
                   /\ cooled' = [by |-> args[c], at |-> now, dur |-> DelayAmountOf(WaitTime(info))]
              ELSE UNCHANGED <<canSubmit, delayStart, delayAmount, cooled>>
           /\ last' = Event("sendSolution", "settle", args[c], NoRequest, status, body,
                            ClassifyOutcome(status, info))
    /\ pc' = [pc EXCEPT ![c] = "idle"]
    /\ args' = [args EXCEPT ![c] = NoArgs]
    /\ wire' = Answered(c)
    /\ before' = Throttle
    /\ UNCHANGED <<now, files, waited>>

\* Mutant of FetchRejects: the request is sent again instead of the error being thrown.
FetchRejects_Retry(c) ==
    /\ pc[c] = "fetch"
    /\ last' = Event("sendSolution", "settle", args[c], SubmitRequest(args[c]), "", NoBody,
                     Awaiting("fetch"))
    /\ before' = Throttle
    /\ UNCHANGED <<canSubmit, delayStart, delayAmount, now, calls, files, history>>

\* fetch() or res.text() rejects: the error goes through handleErrors.
FetchRejects(c) ==
    /\ pc[c] = "fetch"
    /\ pc' = [pc EXCEPT ![c] = "idle"]
    /\ args' = [args EXCEPT ![c] = NoArgs]
    /\ wire' = Answered(c)
    /\ last' = Event("sendSolution", "settle", args[c], NoRequest, "", NoBody, handleErrors(NetworkError))
    /\ before' = Throttle
    /\ UNCHANGED <<canSubmit, delayStart, delayAmount, now, files, history>>

(* ------------------------- the other operations ----------------------- *)

\* Mutant of AuthenticatedRequest: the cookie header is left out.
AuthenticatedRequest_NoCookie(op, year, day, token) ==
    [op |-> op, year |-> year, day |-> day, level |-> 0, cookie |-> "", userAgent |-> TRUE,
     body |-> <<>>]

\* authenticatedOptions(sessionToken) on a GET of the given page.
AuthenticatedRequest(op, year, day, token) ==
    [op |-> op, year |-> year, day |-> day, level |-> 0, cookie |-> token, userAgent |-> TRUE,
     body |-> <<>>]

\* The fetch of useYears: the User-Agent header alone.
PlainRequest(op) ==
    [op |-> op, year |-> 0, day |-> 0, level |-> 0, cookie |-> "", userAgent |-> TRUE,
     body |-> <<>>]

\* text.replace(/\n$/, "")
StripNewline(text) ==
    IF Len(text) > 0 /\ text[Len(text)] = "\n" THEN SubSeq(text, 1, Len(text) - 1) ELSE text

\* The outcome of a fetch followed by the status check, inside try/catch.
FetchOutcome(reply, onOk) ==
    IF ~reply.ok THEN handleErrors(NetworkError)
    ELSE IF reply.status # "200" THEN handleErrors(StatusError(reply.status))
    ELSE onOk

\* Mutant of saveInput: no look at input.txt before the download.
saveInput_Overwrite(dirOk, file, year, day, token, reply) ==
    IF ~dirOk THEN [out |-> AccessError, req |-> NoRequest, file |-> file]
    ELSE [out  |-> FetchOutcome(reply, Done),
          req  |-> AuthenticatedRequest("input", year, day, token),
          file |-> IF FetchOutcome(reply, Done) = Done
                   THEN [exists |-> TRUE, text |-> StripNewline(reply.text)]
                   ELSE file]

\* saveInput on a project folder: the outcome, the request it sent and input.txt afterwards.
saveInput(dirOk, file, year, day, token, reply) ==
    IF ~dirOk THEN [out |-> AccessError, req |-> NoRequest, file |-> file]
    ELSE IF file.exists THEN [out |-> ProjectError, req |-> NoRequest, file |-> file]
    ELSE [out  |-> FetchOutcome(reply, Done),
          req  |-> AuthenticatedRequest("input", year, day, token),
          file |-> IF FetchOutcome(reply, Done) = Done
                   THEN [exists |-> TRUE, text |-> StripNewline(reply.text)]
                   ELSE file]

SaveInput(a, reply) ==
    /\ LET r == saveInput(projectDir, inputFile, a.year, a.day, a.token, reply)
       IN  /\ inputFile' = r.file
           /\ last' = Event("saveInput", "entry", a, r.req, reply.status, NoBody, r.out)
    /\ before' = Throttle
    /\ UNCHANGED <<canSubmit, delayStart, delayAmount, now, calls, projectDir, history>>

\* createProject: refuse an existing folder, make it, then download the input into it.
CreateProject(a, reply) ==
    /\ IF projectDir
       THEN /\ last' = Event("createProject", "entry", a, NoRequest, "", NoBody, ProjectError)
            /\ UNCHANGED files
       ELSE LET r == saveInput(TRUE, inputFile, a.year, a.day, a.token, reply)
            IN  /\ projectDir' = TRUE
                /\ inputFile' = r.file
                /\ last' = Event("createProject", "entry", a, r.req, reply.status, NoBody, r.out)
    /\ before' = Throttle
    /\ UNCHANGED <<canSubmit, delayStart, delayAmount, now, calls, history>>

GetStars(token, reply) ==
    /\ last' = Event("getStars", "entry", [NoArgs EXCEPT !.token = token],
                     AuthenticatedRequest("events", 0, 0, token), reply.status, NoBody,
                     FetchOutcome(reply, Done))
    /\ before' = Throttle
    /\ UNCHANGED <<canSubmit, delayStart, delayAmount, now, calls, files, history>>

GetStarsForYear(year, token, reply) ==
    /\ last' = Event("getStarsForYear", "entry", [NoArgs EXCEPT !.year = year, !.token = token],
                     AuthenticatedRequest("calendar", year, 0, token), reply.status, NoBody,
                     FetchOutcome(reply, Done))
    /\ before' = Throttle
    /\ UNCHANGED <<canSubmit, delayStart, delayAmount, now, calls, files, history>>

\* The promise of useYears: no status check and no try/catch around the fetch.
UseYears(reply) ==
    /\ last' = Event("useYears", "entry", NoArgs, PlainRequest("events"), reply.status, NoBody,
                     IF reply.ok THEN Done ELSE NetworkError)
    /\ before' = Throttle
    /\ UNCHANGED <<canSubmit, delayStart, delayAmount, now, calls, files, history>>

(* ---------------------------- specification --------------------------- *)

Next ==
    \/ Tick /\ UNCHANGED ui
    \/ \E c \in Calls, a \in SubmitArgs : SendSolution(c, a) /\ UNCHANGED ui
    \/ \E c \in Calls, r \in Responses : ResponseArrives(c, r.status, r.body) /\ UNCHANGED ui
    \/ \E c \in Calls : FetchRejects(c) /\ UNCHANGED ui
    \/ \E a \in OtherArgs, reply \in Replies : SaveInput(a, reply) /\ UNCHANGED ui
    \/ \E a \in OtherArgs, reply \in Replies : CreateProject(a, reply) /\ UNCHANGED ui
    \/ \E a \in OtherArgs, reply \in Replies : GetStars(a.token, reply) /\ UNCHANGED ui
    \/ \E a \in OtherArgs, reply \in Replies : GetStarsForYear(a.year, a.token, reply) /\ UNCHANGED ui
    \/ \E reply \in Replies : UseYears(reply) /\ UNCHANGED ui

Spec == Init /\ [][Next]_vars

\* The caller awaits each submission before it makes the next one.
SequentialNext ==
    \/ Tick /\ UNCHANGED ui
    \/ \E c \in Calls, a \in SubmitArgs : (\A d \in Calls : pc[d] = "idle") /\ SendSolution(c, a) /\ UNCHANGED ui
    \/ \E c \in Calls, r \in Responses : ResponseArrives(c, r.status, r.body) /\ UNCHANGED ui
    \/ \E c \in Calls : FetchRejects(c) /\ UNCHANGED ui
    \/ \E a \in OtherArgs, reply \in Replies : SaveInput(a, reply) /\ UNCHANGED ui
    \/ \E a \in OtherArgs, reply \in Replies : CreateProject(a, reply) /\ UNCHANGED ui
    \/ \E a \in OtherArgs, reply \in Replies : GetStars(a.token, reply) /\ UNCHANGED ui
    \/ \E a \in OtherArgs, reply \in Replies : GetStarsForYear(a.year, a.token, reply) /\ UNCHANGED ui
    \/ \E reply \in Replies : UseYears(reply) /\ UNCHANGED ui

SeqSpec == Init /\ [][SequentialNext]_vars

\* One caller, and the network answering with any status and any of the wider bodies.
ReplyNext ==
    \/ Tick /\ UNCHANGED ui
    \/ \E a \in OtherArgs, solution \in Solutions :
           SendSolution(1, [a EXCEPT !.part = 1, !.solution = solution]) /\ UNCHANGED ui
    \/ \E r \in WideResponses : ResponseArrives(1, r.status, r.body) /\ UNCHANGED ui
    \/ FetchRejects(1) /\ UNCHANGED ui
    \/ \E a \in OtherArgs, reply \in Replies : SaveInput(a, reply) /\ UNCHANGED ui
    \/ \E a \in OtherArgs, reply \in Replies : CreateProject(a, reply) /\ UNCHANGED ui
    \/ \E a \in OtherArgs, reply \in Replies : GetStars(a.token, reply) /\ UNCHANGED ui
    \/ \E a \in OtherArgs, reply \in Replies : GetStarsForYear(a.year, a.token, reply) /\ UNCHANGED ui
    \/ \E reply \in Replies : UseYears(reply) /\ UNCHANGED ui

ReplySpec == Init /\ [][ReplyNext]_vars

(* --------------------------- the solution form ------------------------ *)

\* Mutant of LogsSubmission: every result is logged, a wait too.
LogsSubmission_Always(out) == out.kind = "return"

\* The else branch of `res.status === "wait"`.
LogsSubmission(out) == out.kind = "return" /\ out.name # "wait"

\* The toast that handleSubmitError leaves on screen for the caught error e.
handleSubmitError(e, shown) ==
    IF e.name = "RATE_LIMIT" THEN Toast("Failure", "Rate limit")
    ELSE IF e.name = "INVALID_SESSION_TOKEN" THEN Toast("Failure", "Invalid session token")
    ELSE IF e.name = "SOLVE_ERROR" THEN Toast("Failure", "Unable to submit answer")
    ELSE shown

\* The toast that onSubmit shows for the result of sendSolution.
ResultToast(out, shown) ==
    IF out.name = "wait" THEN Toast("Failure", "Rate limit")
    ELSE IF out.name = "success" THEN Toast("Success", "Solved")
    ELSE IF out.name = "wrong" THEN Toast("Failure", "Wrong answer")
    ELSE shown

\* logSubmission(values) up to its first await: LocalStorage.getItem(key) is asked for.
logSubmission(values, f) ==
    LET t == CHOOSE x \in LogTasks :
                 f.logs[x].pc = "idle" /\ \A y \in LogTasks : f.logs[y].pc = "idle" => x <= y
    IN  [f EXCEPT !.logs[t] = [pc |-> "get", values |-> values, prev |-> <<>>],
                  !.called = values,
                  !.judged = Append(@, values)]

\* The form after onSubmit has the outcome of sendSolution in hand.
onSubmitResult(out, values, f) ==
    IF out.kind = "throw"
    THEN [f EXCEPT !.toast = handleSubmitError(out, @), !.called = NoArgs]
    ELSE LET g == IF LogsSubmission(out) THEN logSubmission(values, f)
                  ELSE [f EXCEPT !.called = NoArgs]
         IN  [g EXCEPT !.toast = ResultToast(out, @)]

\* onSubmit from the submit of the form to the await in sendSolution, or to its end
\* when sendSolution returns wait without awaiting anything.
OnSubmit(c, values) ==
    /\ Len(form.judged) < MaxLogged
    /\ SendSolution(c, values)
    /\ form' = IF MustWait(values)
               THEN onSubmitResult(Wait(WaitMessage), values, [form EXCEPT !.toast = Submitting])
               ELSE [form EXCEPT !.toast = Submitting, !.called = NoArgs]
    /\ UNCHANGED view

\* The response arrives: sendSolution settles and onSubmit runs to its end.
OnResponse(c, status, body) ==
    /\ ResponseArrives(c, status, body)
    /\ form' = onSubmitResult(ClassifyOutcome(status, InfoOf(body)), args[c], form)
    /\ UNCHANGED view

\* The fetch rejects: sendSolution throws and onSubmit runs its catch.
OnReject(c) ==
    /\ FetchRejects(c)
    /\ form' = onSubmitResult(handleErrors(NetworkError), args[c], form)
    /\ UNCHANGED view

\* LocalStorage.getItem resolves: next is computed and LocalStorage.setItem is asked for.
LogGet(t) ==
    /\ form.logs[t].pc = "get"
    /\ form' = [form EXCEPT !.logs[t].pc = "set",
                            !.logs[t].prev = form.storage[storageKey(form.logs[t].values)],
                            !.called = NoArgs]
    /\ last' = Event("logSubmission", "get", form.logs[t].values, NoRequest, "", NoBody,
                     Awaiting("setItem"))
    /\ before' = Throttle
    /\ UNCHANGED <<canSubmit, delayStart, delayAmount, now, calls, files, history, view>>

\* LocalStorage.setItem(key, next) takes effect; prev ? prev + "\n" + answer : answer.
LogSet(t) ==
    /\ form.logs[t].pc = "set"
    /\ form' = [form EXCEPT !.storage[storageKey(form.logs[t].values)] =
                                Append(form.logs[t].prev, form.logs[t].values.solution),
                            !.logs[t] = NoLog,
                            !.called = NoArgs]
    /\ last' = Event("logSubmission", "set", form.logs[t].values, NoRequest, "", NoBody, Done)
    /\ before' = Throttle
    /\ UNCHANGED <<canSubmit, delayStart, delayAmount, now, calls, files, history, view>>

\* The form submitted again and again, one submission awaited at a time, the log
\* calls running on their own.
FormNext ==
    \/ \E values \in FormValues : OnSubmit(1, values)
    \/ \E r \in Responses : OnResponse(1, r.status, r.body)
    \/ OnReject(1)
    \/ \E t \in LogTasks : LogGet(t)
    \/ \E t \in LogTasks : LogSet(t)

FormSpec == Init /\ [][FormNext]_vars

\* The network answers or fails in the end, and LocalStorage answers.
FormFairSpec ==
    /\ FormSpec
    /\ WF_vars((\E r \in Responses : OnResponse(1, r.status, r.body)) \/ OnReject(1))
    /\ WF_vars(\E t \in LogTasks : LogGet(t) \/ LogSet(t))

(* --------------------------- the stars view --------------------------- *)

Filters == {"all", "incomplete", "complete"}

StarYears == {2022, 2023}

\* What getStars resolves to: the stars of each year.
YearStars == [StarYears -> {0, 49, 50}]

\* What getStarsForYear resolves to: the stars of each day.
DayStars == [1..MaxDay -> 0..2]

passesFilter(stars, filter, maxStars) ==
    IF filter = "incomplete" THEN stars < maxStars
    ELSE IF filter = "complete" THEN stars = maxStars
    ELSE TRUE

\* The list of the Year component: its items are the days of data.
Year(year, filter, data) ==
    [screen |-> "Year", year |-> year, filter |-> filter, data |-> data,
     shown |-> IF passesFilter(year, filter, 2) THEN DOMAIN data ELSE {}]

\* The list of the command: its items are the years of data.
Command(filter, data) ==
    [screen |-> "Command", year |-> 0, filter |-> filter, data |-> data,
     shown |-> {year \in DOMAIN data : passesFilter(data[year], filter, 50)}]

\* The command is launched and getStars has resolved.
ViewStars(data) ==
    /\ view' = Command("all", data)
    /\ UNCHANGED <<canSubmit, delayStart, delayAmount, now, calls, files, last, before, history, form>>

\* Action.Push on the item of a year, and getStarsForYear has resolved.
PushYear(year, data) ==
    /\ view.screen = "Command"
    /\ year \in view.shown
    /\ view' = Year(year, "all", data)
    /\ UNCHANGED <<canSubmit, delayStart, delayAmount, now, calls, files, last, before, history, form>>

\* onChange of the FilterDropdown: setFilter, and the list is rendered again.
SetFilter(filter) ==
    /\ view.screen # ""
    /\ view' = IF view.screen = "Command" THEN Command(filter, view.data)
                ELSE Year(view.year, filter, view.data)
    /\ UNCHANGED <<canSubmit, delayStart, delayAmount, now, calls, files, last, before, history, form>>

StarsNext ==
    \/ \E data \in YearStars : ViewStars(data)
    \/ \E year \in StarYears, data \in DayStars : PushYear(year, data)
    \/ \E filter \in Filters : SetFilter(filter)

StarsSpec == Init /\ [][StarsNext]_vars

(* ------------------------------- claims ------------------------------- *)

\* The last step was a call of sendSolution (not the arrival of a response).
IsEntry == last.op = "sendSolution" /\ last.phase = "entry"

\* The last step was a call of sendSolution that returned wait.
IsWait == IsEntry /\ last.out.kind = "return" /\ last.out.name = "wait"

\* The last step was a call of sendSolution that went on to send its request.
IsSent ==
    /\ IsEntry /\ last.out = Awaiting("fetch")
    /\ last.req = SubmitRequest(last.args)
    /\ \E r \in wire : r.req = last.req

\* Before the last step a cooldown was set and had not run out at the time of the step.
CoolingBefore == ~before.canSubmit /\ now - before.delayStart < before.delayAmount

\* Before the last step a cooldown was set and had run out at the time of the step.
ExpiredBefore == ~before.canSubmit /\ now - before.delayStart >= before.delayAmount

UnitMs(u) ==
    CASE u = "s" -> 1000 [] u = "m" -> 60000 [] u = "h" -> 3600000 [] u = "d" -> 86400000

RECURSIVE PartsMs(_)
\* The milliseconds that a rendered duration reads as.
PartsMs(time) == IF time = <<>> THEN 0 ELSE time[1][1] * UnitMs(time[1][2]) + PartsMs(Tail(time))

\* A text in which a spelled-out or a shorthand duration can be found.
HasDuration(text) ==
    \E i \in 1..Len(text) :
        \/ text[i].k = "short"
        \/ /\ i < Len(text)
           /\ text[i].w \in NumberWords /\ text[i].k = "word"
           /\ text[i+1].w \in UnitWords /\ text[i+1].k = "word"

\* C1: a sendSolution call made while a cooldown is active returns wait and sends no
\* request: the gate comes before the transport.
C1_NoRequestWhileCooling ==
    (IsEntry /\ CoolingBefore) =>
        /\ IsWait
        /\ last.req = NoRequest
        /\ Cardinality(wire) = Cardinality({c \in Calls : pc[c] = "fetch"})
        /\ Throttle = before

C1_Witness == IsWait /\ CoolingBefore /\ before.delayStart > 0

\* C2: when the response of one call sets the cooldown, no other call that overlapped
\* with it has reached the network (no other request is in flight at that moment).
C2_NoOverlappingRequest == (last.out.name = "RATE_LIMIT") => wire = {}

\* C3: a sendSolution call made once the cooldown is over sets canSubmit and sends its
\* request in that same call.
C3_ReopensAndSends == (IsEntry /\ ExpiredBefore) => (canSubmit /\ IsSent)

C3_Witness == IsEntry /\ ExpiredBefore /\ before.delayAmount > 0 /\ IsSent

\* C4: a wait outcome renders the time left of the cooldown, T + D - T' cut to whole
\* seconds, and once time has passed it is less than the full duration D.
C4_WaitRendersRemaining ==
    IsWait =>
        LET left == cooled.at + cooled.dur - now
        IN  /\ left > 0
            /\ PartsMs(last.out.time) <= left
            /\ left < PartsMs(last.out.time) + 1000
            /\ now > cooled.at => PartsMs(last.out.time) < cooled.dur

C4_Witness == IsWait /\ now > cooled.at /\ last.out.time = <<<<59, "s">>>>

\* C5: from one wait outcome to the next within a cooldown, the remaining time
\* reported never goes up.
C5_WaitsNeverGoUp ==
    [][(last'.out.name = "wait" /\ waited # -1) => waited' <= waited]_vars

\* C6: canSubmit goes from true to false only in the step in which a 200 submission
\* response with the "too recently" marker and a duration in its text is handled.
C6_OnlyRateLimitCloses ==
    (before.canSubmit /\ ~canSubmit) =>
        /\ last.op = "sendSolution" /\ last.phase = "settle"
        /\ last.status = "200"
        /\ last.body.main
        /\ Includes(last.body.text, TooRecently)
        /\ HasDuration(last.body.text)
        /\ last.out.name = "RATE_LIMIT"

C6_Witness == before.canSubmit /\ ~canSubmit

\* C7: a rate-limit response sets delayStart to the clock and delayAmount to the parsed
\* duration in milliseconds, and fails with RATE_LIMIT whose message renders that duration.
C7_RateLimitRecordsCooldown ==
    (last.out.name = "RATE_LIMIT") =>
        /\ last.out.kind = "throw"
        /\ last.out.prefix = "Next request possible in: "
        /\ ~canSubmit
        /\ delayStart = now
        /\ delayAmount = PartsMs(last.out.time)
        /\ last.body.text = <<TooRecently, W("one"), W("minute")>> =>
               (delayAmount = 60000 /\ last.out.time = <<<<1, "m">>>>)
        /\ last.body.text = <<TooRecently, Short(1, "s")>> =>
               (delayAmount = 1000 /\ last.out.time = <<<<1, "s">>>>)

C7_Witness == last.out.name = "RATE_LIMIT" /\ delayAmount = 60000 /\ now > 0

\* C8: with submissions made one after the other, every call made before the deadline
\* of a surfaced rate limit returns wait, and no RATE_LIMIT is surfaced before the
\* deadline of the one before it.
C8_RateLimitSurfacedOnce ==
    /\ (IsEntry /\ cooled.at >= 0 /\ now < cooled.at + cooled.dur) => IsWait
    /\ (last.out.name = "RATE_LIMIT") => now >= before.delayStart + before.delayAmount

C8_Witness == IsWait /\ cooled.at >= 0 /\ now > cooled.at

\* C9: the cooldown set by a submission for one year, day, part and session token makes
\* submissions for any other year, day, part and token wait until the same deadline.
C9_CooldownIsGlobal ==
    (IsEntry /\ cooled.at >= 0 /\ last.args # cooled.by) =>
        IF now < cooled.at + cooled.dur
        THEN IsWait /\ last.req = NoRequest
        ELSE IsSent

C9_Witness ==
    /\ IsWait
    /\ last.args.year # cooled.by.year /\ last.args.day # cooled.by.day
    /\ last.args.part # cooled.by.part /\ last.args.token # cooled.by.token

\* C10: the throttle starts open, and only a step of sendSolution changes it: the other
\* operations and the passing of time leave canSubmit, delayStart and delayAmount alone.
C10_OnlySendSolutionWrites ==
    /\ last.op = "none" => (canSubmit /\ delayStart = 0 /\ delayAmount = 0)
    /\ last.op # "sendSolution" => Throttle = before

C10_Witness ==
    /\ last.op \in {"saveInput", "getStars", "getStarsForYear", "useYears", "tick"}
    /\ ~canSubmit
    /\ now >= delayStart + delayAmount

(* ------------------------------ C11, C12 ------------------------------ *)

AuthenticatedOps == {"saveInput", "createProject", "getStars", "getStarsForYear"}

\* The last event is an authenticated operation that got an HTTP response.
AuthResponded ==
    /\ last.status # ""
    /\ \/ last.op = "sendSolution" /\ last.phase = "settle"
       \/ last.op \in AuthenticatedOps /\ last.req # NoRequest

IsInvalidToken == last.out.kind = "throw" /\ last.out.name = "INVALID_SESSION_TOKEN"

\* C11: whenever an authenticated operation (sendSolution, saveInput, getStars,
\* getStarsForYear) receives a response whose status is not 200, whatever the status,
\* the call fails with INVALID_SESSION_TOKEN.
C11_EveryNon200IsInvalidToken ==
    (AuthResponded /\ last.status # "200") => IsInvalidToken

\* C12: a response with status 500 to any authenticated operation yields
\* INVALID_SESSION_TOKEN and never SOLVE_ERROR, whatever the body holds.
C12_Status500IsInvalidToken ==
    (AuthResponded /\ last.status = "500") => (IsInvalidToken /\ last.out.name # "SOLVE_ERROR")

\* A 500 whose body, had it been read, would have given SOLVE_ERROR.
C12_Witness ==
    /\ last.op = "sendSolution" /\ last.phase = "settle" /\ last.status = "500"
    /\ last.body.main /\ last.body.text = <<W("Day 5")>>
    /\ IsInvalidToken

(* --------------------------- C13, C14, C15 ---------------------------- *)

\* The last event is a submission whose request was answered with status 200.
SubmitAnswered200 ==
    last.op = "sendSolution" /\ last.phase = "settle" /\ last.status = "200"

\* The extracted main-content text of the response in the last event.
LastInfo == InfoOf(last.body)

SolveErrorWith(text) == AocError("SOLVE_ERROR", "", <<>>, text)

IsRateLimit == last.out.kind = "throw" /\ last.out.name = "RATE_LIMIT"

\* C13: a 200 submission response is classified by the markers in its main-content
\* text in strict priority order: the right-answer marker gives success; else the
\* not-right marker gives wrong with the text as message; else the too-recently marker
\* gives the rate-limit extraction; else SOLVE_ERROR with the text.
C13_PriorityOrder ==
    SubmitAnswered200 =>
        IF Includes(LastInfo, RightAnswer) THEN last.out = Success
        ELSE IF Includes(LastInfo, NotRightAnswer) THEN last.out = Wrong(LastInfo)
        ELSE IF Includes(LastInfo, TooRecently)
             THEN IsRateLimit \/ last.out = SolveErrorWith(LastInfo)
        ELSE last.out = SolveErrorWith(LastInfo)

\* C14: every 200 submission response whose body contains the right-answer marker is
\* classified as success, wherever the marker sits in the body.
C14_MarkerAnywhereIsSuccess ==
    (SubmitAnswered200 /\ Includes(last.body.text, RightAnswer)) => last.out = Success

\* C15: every 200 submission response whose main-content text has none of the three
\* markers is reported as SOLVE_ERROR carrying that text, whatever the text is.
C15_UnknownTextIsSolveError ==
    ( /\ SubmitAnswered200
      /\ ~Includes(LastInfo, RightAnswer)
      /\ ~Includes(LastInfo, NotRightAnswer)
      /\ ~Includes(LastInfo, TooRecently) )
    => last.out = SolveErrorWith(LastInfo)

(* -------------------------------- C16 --------------------------------- *)

\* The last response reached the too-recently branch and holds no duration.
TooRecentlyWithoutDuration ==
    SubmitAnswered200 /\ Classify(LastInfo) = "rateLimit" /\ ~HasDuration(LastInfo)

\* C16: a 200 response with the too-recently marker from which no duration can be
\* extracted fails with SOLVE_ERROR carrying the text and leaves canSubmit, delayStart
\* and delayAmount as they were, so that an open gate stays open for the next call.
C16_NoDurationIsSolveError ==
    TooRecentlyWithoutDuration =>
        /\ last.out = SolveErrorWith(LastInfo)
        /\ Throttle = before
        /\ before.canSubmit => \A a \in SubmitArgs : ~MustWait(a)

C16_Witness ==
    /\ TooRecentlyWithoutDuration
    /\ last.body.text = <<TooRecently, W("eleven"), W("minute")>>
    /\ last.out.name = "SOLVE_ERROR"
    /\ canSubmit

(* -------------------------------- C17 --------------------------------- *)

IsSettle == last.op = "sendSolution" /\ last.phase = "settle"

RequestsOf(c) == {r \in wire : r.call = c}

\* C18: no retry. A call of sendSolution has one request on the wire while it awaits
\* the response and none otherwise; the step that handles the response or the failure
\* sends no request and hands a result or an error to the caller.
C18_NoRetry ==
    /\ \A c \in Calls : Cardinality(RequestsOf(c)) = IF pc[c] = "fetch" THEN 1 ELSE 0
    /\ IsSettle => (last.req = NoRequest /\ last.out.kind \in {"return", "throw"})

\* A transport failure handed to the caller, with nothing left on the wire.
C18_Witness ==
    /\ IsSettle /\ last.out = NetworkError
    /\ wire = {} /\ \A c \in Calls : pc[c] = "idle"

(* -------------------------------- C19 --------------------------------- *)

\* C19: an error that is not a status failure reaches the caller as it was raised: a
\* rejected fetch gives the network error and leaves the throttle alone, and the
\* RATE_LIMIT and SOLVE_ERROR errors raised inside the try block pass through
\* handleErrors unchanged.
C19_ErrorsPassUnchanged ==
    /\ (IsSettle /\ last.status = "") => (last.out = NetworkError /\ Throttle = before)
    /\ (SubmitAnswered200 /\ Classify(LastInfo) = "rateLimit")
         => last.out = handleRateLimit(LastInfo)
    /\ (SubmitAnswered200 /\ Classify(LastInfo) = "solveError")
         => last.out = SolveErrorWith(LastInfo)

(* -------------------------------- C20 --------------------------------- *)

\* A spelled-out quantity starts at position i of the text.
SpelledAt(text, i) ==
    /\ i \in 1..(Len(text) - 1)
    /\ text[i].k = "word" /\ text[i].w \in NumberWords
    /\ text[i+1].k = "word" /\ text[i+1].w \in UnitWords

ShorthandAt(text, i) == i \in 1..Len(text) /\ text[i].k = "short"

\* C20: in the extraction the spelled-out pattern has precedence. When the text holds a
\* spelled-out quantity, the duration is that single quantity (the first one) and the
\* shorthand tokens add nothing; when it holds none, the duration is made of the
\* shorthand tokens.
C20_SpelledOutWins ==
    (SubmitAnswered200 /\ Classify(LastInfo) = "rateLimit") =>
        LET info == LastInfo
            spelled == {i \in 1..Len(info) : SpelledAt(info, i)}
            shorts  == {i \in 1..Len(info) : ShorthandAt(info, i)}
        IN  IF spelled # {}
            THEN LET i == CHOOSE x \in spelled : \A y \in spelled : x <= y
                     n == strToNum(info[i].w)
                     u == FirstLetter(info[i+1].w)
                 IN  /\ IsRateLimit
                     /\ last.out.time = << <<n, u>> >>
                     /\ delayAmount = n * UnitMs(u)
            ELSE shorts # {} =>
                 /\ IsRateLimit
                 /\ delayAmount = PartsMs(last.out.time)
                 /\ \A k \in 1..Len(last.out.time) :
                        \E j \in shorts : last.out.time[k] = <<info[j].n, info[j].w>>
                 /\ LET j == CHOOSE x \in shorts : \A y \in shorts : y <= x
                    IN  info[j].n # 0 =>
                            \E k \in 1..Len(last.out.time) :
                                last.out.time[k] = <<info[j].n, info[j].w>>

\* Seven minutes in shorthand before "two second": two seconds it is.
C20_Witness ==
    /\ SubmitAnswered200 /\ IsRateLimit
    /\ last.body.text = <<TooRecently, Short(7, "m"), W("two"), W("second")>>
    /\ delayAmount = 2000 /\ last.out.time = << <<2, "s">> >>

(* -------------------------------- C21 --------------------------------- *)

RECURSIVE ShorthandSumMs(_)
\* The milliseconds of all the shorthand tokens of a text, added up.
ShorthandSumMs(text) ==
    IF text = <<>> THEN 0
    ELSE (IF text[1].k = "short" THEN text[1].n * UnitMs(text[1].w) ELSE 0)
         + ShorthandSumMs(Tail(text))

\* The last response reached the too-recently branch with shorthand tokens only.
ShorthandOnly ==
    /\ SubmitAnswered200 /\ Classify(LastInfo) = "rateLimit"
    /\ \E i \in 1..Len(LastInfo) : ShorthandAt(LastInfo, i)
    /\ ~\E i \in 1..Len(LastInfo) : SpelledAt(LastInfo, i)

\* C21: in the shorthand fallback the cooldown is the sum of all the shorthand tokens
\* found; tokens with the same unit letter ("5m 3m") are added up.
C21_ShorthandTokensAreSummed ==
    ShorthandOnly => delayAmount = ShorthandSumMs(LastInfo)

(* -------------------------------- C22 --------------------------------- *)

NumberWordSeq == <<"one", "two", "three", "four", "five", "six", "seven", "eight", "nine", "ten">>

\* The number a spelled-out word stands for.
WordValue(w) == CHOOSE n \in 1..Len(NumberWordSeq) : NumberWordSeq[n] = w

\* No two shorthand tokens of the text carry the same unit letter.
DistinctUnits(text) ==
    \A i, j \in 1..Len(text) :
        (ShorthandAt(text, i) /\ ShorthandAt(text, j) /\ text[i].w = text[j].w) => i = j

\* C22: the cooldown installed by a rate-limit response is the parsed quantity in
\* milliseconds: value(w) times the unit length for a spelled-out quantity ("two
\* minute" is 120000), the sum d*86400000 + h*3600000 + m*60000 + s*1000 for shorthand
\* tokens of distinct units ("1h 5m" is 3900000), and never negative.
C22_CooldownInMilliseconds ==
    (SubmitAnswered200 /\ IsRateLimit) =>
        LET info == LastInfo
            spelled == {i \in 1..Len(info) : SpelledAt(info, i)}
        IN  /\ delayAmount >= 0
            /\ spelled # {} =>
                   \E i \in spelled :
                       delayAmount = WordValue(info[i].w) * UnitMs(FirstLetter(info[i+1].w))
            /\ (spelled = {} /\ DistinctUnits(info)) => delayAmount = ShorthandSumMs(info)
            /\ info = <<TooRecently, W("two"), W("minute")>> => delayAmount = 120000
            /\ info = <<TooRecently, Short(1, "h"), Short(5, "m")>> => delayAmount = 3900000

C22_Witness ==
    /\ SubmitAnswered200 /\ IsRateLimit
    /\ LastInfo = <<TooRecently, W("two"), W("minute")>>
    /\ delayAmount = 120000

(* -------------------------------- C23 --------------------------------- *)

UnitRank(u) == CASE u = "d" -> 1 [] u = "h" -> 2 [] u = "m" -> 3 [] u = "s" -> 4

\* The rendered text has exactly the non-zero units of value, largest unit first.
Renders(time, value) ==
    /\ \A k \in 1..Len(time) : time[k][1] # 0
    /\ \A k \in 1..(Len(time) - 1) : UnitRank(time[k][2]) < UnitRank(time[k+1][2])
    /\ \A u \in {"d", "h", "m", "s"} :
          value[u] # 0 <=> \E k \in 1..Len(time) : time[k] = <<value[u], u>>

\* Days, hours, minutes and whole seconds of a number of milliseconds.
UnitsOfMs(ms) ==
    [d |-> ms \div 86400000,
     h |-> (ms % 86400000) \div 3600000,
     m |-> (ms % 3600000) \div 60000,
     s |-> (ms % 60000) \div 1000]

\* C23: a duration rendered to text, in the RATE_LIMIT message and in the wait message,
\* leaves out every unit whose value is zero and shows every other unit, in the order
\* days, hours, minutes, seconds.
C23_RenderOmitsZeroUnits ==
    /\ (SubmitAnswered200 /\ IsRateLimit) => Renders(last.out.time, WaitTime(LastInfo))
    /\ IsWait => Renders(last.out.time, UnitsOfMs(waited))

\* "1h 5m" half a second later: three units, the day left out.
C23_Witness ==
    /\ IsWait /\ waited = 3899500
    /\ last.out.time = << <<1, "h">>, <<4, "m">>, <<59, "s">> >>

(* -------------------------------- C24 --------------------------------- *)

\* A call returned wait during the cooldown that a "one minute" response installed.
OneMinuteWait == IsWait /\ delayAmount = 60000 /\ cooled.dur = 60000

\* C24 as stated: within the 60 s after a "one minute" response, a submission returns
\* wait with the message "You have to wait: 0m Xs", X < 60.
C24_WaitReadsZeroMinutes ==
    OneMinuteWait =>
        /\ last.out.prefix = "You have to wait: "
        /\ \E X \in 0..59 : last.out.time = << <<0, "m">>, <<X, "s">> >>

\* C24 amended: within the 60 s after a "one minute" response, a submission returns
\* wait with the message "You have to wait: " and the time left with its zero units
\* left out: "1m" in the instant of the response, afterwards "Xs" where X < 60 is the
\* number of whole seconds left, which goes down as the clock goes on.
C24_WaitReadsSecondsLeft ==
    OneMinuteWait =>
        LET X == (60000 - (now - delayStart)) \div 1000
        IN  /\ last.out.prefix = "You have to wait: "
            /\ now - delayStart < 60000
            /\ IF now = delayStart THEN last.out.time = << <<1, "m">> >>
               ELSE /\ X < 60
                    /\ last.out.time = IF X = 0 THEN <<>> ELSE << <<X, "s">> >>

C24_Witness ==
    /\ OneMinuteWait /\ now = delayStart + 500
    /\ last.out.time = << <<59, "s">> >>

(* -------------------------------- C25 --------------------------------- *)

RECURSIVE SplitOn(_, _)
\* The pieces of a text between the occurrences of a separator.
SplitOn(text, sep) ==
    IF \A i \in 1..Len(text) : text[i] # sep THEN <<text>>
    ELSE LET i == CHOOSE x \in 1..Len(text) :
                      text[x] = sep /\ \A y \in 1..(x - 1) : text[y] # sep
         IN  <<SubSeq(text, 1, i - 1)>> \o SplitOn(SubSeq(text, i + 1, Len(text)), sep)

RECURSIVE UrlDecode(_)
\* Form decoding of a value: "+" is a space, "%26" is "&", "%2B" is "+".
UrlDecode(text) ==
    IF text = <<>> THEN <<>>
    ELSE IF text[1] = "+" THEN <<" ">> \o UrlDecode(Tail(text))
    ELSE IF Len(text) >= 3 /\ SubSeq(text, 1, 3) = <<"%", "2", "6">>
         THEN <<"&">> \o UrlDecode(SubSeq(text, 4, Len(text)))
    ELSE IF Len(text) >= 3 /\ SubSeq(text, 1, 3) = <<"%", "2", "B">>
         THEN <<"+">> \o UrlDecode(SubSeq(text, 4, Len(text)))
    ELSE <<text[1]>> \o UrlDecode(Tail(text))

\* name=value, split at the first "=".
FormField(pair) ==
    LET parts == SplitOn(pair, "=")
    IN  [name  |-> parts[1],
         value |-> UrlDecode(SubSeq(pair, Len(parts[1]) + 2, Len(pair)))]

\* The fields that a server reads from an application/x-www-form-urlencoded body.
FormFields(body) ==
    LET pairs == SplitOn(body, "&")
    IN  [i \in 1..Len(pairs) |-> FormField(pairs[i])]

\* C25: the body of the submission request decodes to exactly two form fields, level
\* with the part and answer with the submitted text, whatever characters the answer
\* holds.
C25_BodyDecodesToAnswer ==
    IsSent =>
        FormFields(last.req.body) =
            << [name |-> <<"l", "e", "v", "e", "l">>, value |-> <<PartDigit(last.args.part)>>],
               [name |-> <<"a", "n", "s", "w", "e", "r">>, value |-> last.args.solution] >>

(* -------------------------------- C26 --------------------------------- *)

\* C26: saveInput called on a project folder that already holds input.txt fails with
\* ProjectError, sends no request and leaves the file as it is.
C26_SaveInputRefusesOverwrite ==
    [][ (last'.op = "saveInput" /\ projectDir /\ inputFile.exists)
        => (last'.out = ProjectError /\ last'.req = NoRequest /\ inputFile' = inputFile) ]_vars

C26_Witness ==
    /\ last.op = "saveInput" /\ last.out = ProjectError /\ last.req = NoRequest
    /\ projectDir /\ inputFile.exists /\ inputFile.text = <<"1">>

(* -------------------------------- C27 --------------------------------- *)

\* C27: every request sent carries the User-Agent header; the requests of sendSolution,
\* saveInput, getStars and getStarsForYear also carry the session token of the call as
\* cookie, and the request of useYears carries no cookie.
C27_RequestHeaders ==
    /\ last.req # NoRequest => last.req.userAgent
    /\ (last.req # NoRequest /\ last.op \in AuthenticatedOps \cup {"sendSolution"})
         => (last.req.cookie = last.args.token /\ last.req.cookie # "")
    /\ last.op = "useYears" => (last.req # NoRequest /\ last.req.cookie = "")
    /\ \A r \in wire : r.req.userAgent /\ r.req.cookie = args[r.call].token

C27_Witness ==
    /\ last.op = "getStarsForYear" /\ last.req.userAgent /\ last.req.cookie = "tokA"
    /\ \E r \in wire : r.req.cookie = "tokB"

(* -------------------------------- C28 --------------------------------- *)

\* The last step was a sendSolution call made when the cooldown set before it had run out.
ReopenedByCall == IsEntry /\ ExpiredBefore

\* C28: a cooldown once installed stays as it is (canSubmit false, delayStart and
\* delayAmount unchanged) until a sendSolution call made at or after its end reopens
\* the gate; the response of a submission that was in flight does not touch it.
C28_CooldownStaysPut ==
    (~before.canSubmit /\ ~ReopenedByCall) => Throttle = before

(* -------------------------------- C29 --------------------------------- *)

\* C29: only a rate-limit outcome writes the cooldown clock. A step of sendSolution
\* that does not end in RATE_LIMIT leaves delayStart and delayAmount as they were, and
\* one that returns wait leaves canSubmit as it was too.
C29_OnlyRateLimitWritesClock ==
    /\ (last.op = "sendSolution" /\ ~IsRateLimit)
         => (delayStart = before.delayStart /\ delayAmount = before.delayAmount)
    /\ IsWait => canSubmit = before.canSubmit

\* A 500 whose body reads like a rate limit: the clock is not touched.
C29_Witness ==
    /\ IsSettle /\ last.status = "500" /\ IsInvalidToken
    /\ last.body.text = <<TooRecently, W("one"), W("minute")>>
    /\ now > 0 /\ Throttle = before /\ canSubmit

(* -------------------------------- C30 --------------------------------- *)

\* C30: every wait outcome names a remaining time of at least one unit, also when less
\* than a second is left of the cooldown.
C30_WaitNamesADuration == IsWait => last.out.time # <<>>

(* -------------------------------- C31 --------------------------------- *)

\* The last step was a createProject whose download of the input failed.
DownloadFailed ==
    last.op = "createProject" /\ last.req # NoRequest /\ last.out.kind = "throw"

\* C31: createProject is all-or-nothing: when the download of the input fails after
\* the folder was made, no project folder is left behind, so that a second
\* createProject with the same name is not refused as "Project already exists".
C31_NoFolderLeftBehind == DownloadFailed => ~projectDir

(* -------------------------------- C32 --------------------------------- *)

\* The last step ended a sendSolution call of the form: a result or an error.
SubmitEnded == last.op = "sendSolution" /\ last.out.kind \in {"return", "throw"}

WasJudged == last.out.kind = "return" /\ last.out.name \in {"success", "wrong"}

\* C32: the answer is handed to logSubmission exactly when sendSolution returned
\* success or wrong, never on wait or on an error; what logSubmission writes is the
\* history it read with that answer at the end, and nothing else gets into the history.
C32_LoggedIffJudged ==
    /\ SubmitEnded => (form.called = last.args <=> WasJudged)
    /\ ~SubmitEnded => form.called = NoArgs
    /\ form.called # NoArgs =>
          \E t \in LogTasks : form.logs[t].pc = "get" /\ form.logs[t].values = form.called
    /\ (last.op = "logSubmission" /\ last.phase = "set") =>
          LET stored == form.storage[storageKey(last.args)]
          IN  stored # <<>> /\ stored[Len(stored)] = last.args.solution
    /\ \A k \in Keys : \A i \in 1..Len(form.storage[k]) :
          \E j \in 1..Len(form.judged) :
              storageKey(form.judged[j]) = k /\ form.judged[j].solution = form.storage[k][i]

\* A wrong answer on its way into the history after an answer that was logged before.
C32_Witness ==
    /\ SubmitEnded /\ last.out.name = "wrong" /\ form.called = last.args
    /\ form.storage[storageKey(last.args)] # <<>>

(* -------------------------------- C33 --------------------------------- *)

\* No logSubmission call is between its read and its write.
LogsSettled == \A t \in LogTasks : form.logs[t] = NoLog

Holds(stored, answer) == \E i \in 1..Len(stored) : stored[i] = answer

\* C33: once the logSubmission calls have finished, the history under each key holds
\* every answer that was handed to logSubmission for that key.
C33_NoLoggedAnswerLost ==
    LogsSettled =>
        \A j \in 1..Len(form.judged) :
            Holds(form.storage[storageKey(form.judged[j])], form.judged[j].solution)

(* -------------------------------- C34 --------------------------------- *)

FinalToast == form.toast.style \in {"Success", "Failure"}

\* C34: whenever the animated "Submitting answer" toast is up, a success or failure
\* toast takes its place in the end, whatever sendSolution returns or throws.
C34_SubmittingToastReplaced == (form.toast = Submitting) ~> FinalToast

(* -------------------------------- C35 --------------------------------- *)

\* The items that the filter of the view lets through, judged by their own stars.
Filtered(maxStars) ==
    {item \in DOMAIN view.data :
        CASE view.filter = "incomplete" -> view.data[item] < maxStars
          [] view.filter = "complete" -> view.data[item] = maxStars
          [] OTHER -> TRUE}

\* C35: the list of a year shows exactly the days that pass the filter by their
\* stars out of 2, as the list of years shows the years that pass it out of 50.
C35_DaysFilteredByStars ==
    /\ view.screen = "Year" => view.shown = Filtered(2)
    /\ view.screen = "Command" => view.shown = Filtered(50)

====
